---- MODULE Spec2Model ----
(***************************************************************************)
(* Daily Reading Companion: the progress store (services/progress.py,      *)
(* models/core.py, utils.py) and the paragraph chunker                     *)
(* (processors/chunker.py).                                                *)
(*                                                                         *)
(* Spec      one process, whole calls of ProgressService, from no file     *)
(* SpecFile  one process, whole calls, from any progress.json a user or    *)
(*           an earlier run may have left                                  *)
(* SpecConc  two processes, one call each, interleaved at the file reads   *)
(*           and writes of the call                                        *)
(* SpecCrash one process whose call may stop at any of its steps           *)
(* SpecChunk TextChunker.chunk_text applied to a bounded text              *)
(* SpecRead  the process and read commands on one book, with mail delivery *)
(* SpecClean utils.clean_text applied to a bounded text                    *)
(***************************************************************************)
EXTENDS Integers, Sequences, FiniteSets, TLC

\* ------------------------------------------------------------------ bounds
MaxTotal == 2
MaxCalls == 4
PreCalls == 2
MaxLen == 5
MaxHalfMinutes == 2
MaxWpm == 2

Books == {"a.txt", "b.txt"}
Totals == 0..MaxTotal
Procs == {1, 2}

VARIABLES
    disk,      \* data/progress.json: does it exist, what its bytes are, the document they encode
    last,      \* the last whole call: its name, arguments, outcome and the store before it
    hist,      \* per book: the calls made on it so far
    ncalls,    \* number of calls made
    pc,        \* per process: the step of its call
    op,        \* per process: the call it makes
    pdata,     \* per process: progress_data, the document loaded at the start of the call
    bprog,     \* per process: book_progress
    start,     \* the store when the processes started
    text,      \* chunk_text: the input text
    minutes,   \* TextChunker.target_reading_time, in half minutes
    wpm,       \* TextChunker.words_per_minute
    out,       \* chunk_text's outcome
    reader,    \* the read command: the chunk file, the mail settings, what was presented
    kept       \* the last complete document a process's write left in the file

vars ==
    <<disk, last, hist, ncalls, pc, op, pdata, bprog, start, text, minutes, wpm, out, reader,
      kept>>
storeVars == <<disk, last, hist, ncalls>>
procVars == <<pc, op, pdata, bprog, start>>
chunkVars == <<text, minutes, wpm, out>>

\* ------------------------------------------------------- the stored document
\* One entry of "books": the keys it has and their values (0 / FALSE when absent).
NoEntry ==
    [present |-> FALSE, keys |-> {}, current_chunk |-> 0, total_chunks |-> 0,
     reading_days |-> 0, completed |-> FALSE]

\* progress_data["books"][book_filename] = {}
EmptyEntry == [NoEntry EXCEPT !.present = TRUE]

AllKeys == {"current_chunk", "total_chunks", "reading_days", "completed"}

\* {"books": {}}
EmptyDoc == [hasBooks |-> TRUE, books |-> [b \in Books |-> NoEntry]]

\* {}
NoBooksDoc == [hasBooks |-> FALSE, books |-> [b \in Books |-> NoEntry]]

NoFile == [exists |-> FALSE, text |-> "none", doc |-> NoBooksDoc]

\* a file whose bytes are the complete dump of doc
JsonFile(doc) == [exists |-> TRUE, text |-> "json", doc |-> doc]

\* a file left by open(..., 'w') before anything was written
TruncatedFile == [exists |-> TRUE, text |-> "empty", doc |-> NoBooksDoc]

\* a file holding part of a dump, or the bytes of two overlapping dumps
CorruptFile == [exists |-> TRUE, text |-> "corrupt", doc |-> NoBooksDoc]

\* dict.get(key, default) on an entry
Get(e, key, default) == IF key \in e.keys THEN e[key] ELSE default

\* BookProgress()
BookProgress0 ==
    [current_chunk |-> 0, total_chunks |-> 0, reading_days |-> 0, completed |-> FALSE]

\* ------------------------------------------------------------------ utils.py
load_json(d) ==
    IF ~d.exists THEN [exc |-> "none", doc |-> NoBooksDoc]
    ELSE IF d.text = "json" THEN [exc |-> "none", doc |-> d.doc]
    ELSE [exc |-> "JSONDecodeError", doc |-> NoBooksDoc]

\* open(file_path, 'w'): the file exists and is empty
open_w(d) == TruncatedFile

\* json.dump and the close, on the file as the writer finds it: the complete dump when
\* the file is still as open() left it; when another writer's bytes are in it, the dump
\* overwrites them from offset 0 and what remains is this dump or, the other being
\* longer, this dump followed by the other's tail
json_dump(d, doc) ==
    IF d.text = "empty" THEN {JsonFile(doc)} ELSE {JsonFile(doc), CorruptFile}

\* the whole of save_json, run alone
save_json(d, doc) == CHOOSE f \in json_dump(open_w(d), doc) : TRUE

\* ---------------------------------------------------------- models/core.py
\* mark_chunk_read with <= for <: a finished book is advanced once more
mark_chunk_read_le(bp) ==
    IF bp.current_chunk <= bp.total_chunks
    THEN [bp EXCEPT !.current_chunk = @ + 1,
                    !.reading_days = @ + 1,
                    !.completed = IF bp.current_chunk + 1 >= bp.total_chunks THEN TRUE ELSE @]
    ELSE bp

\* mark_chunk_read with the completed flag recomputed on every call
mark_chunk_read_recompute(bp) ==
    IF bp.current_chunk < bp.total_chunks
    THEN [bp EXCEPT !.current_chunk = @ + 1,
                    !.reading_days = @ + 1,
                    !.completed = bp.current_chunk + 1 >= bp.total_chunks]
    ELSE [bp EXCEPT !.completed = bp.current_chunk >= bp.total_chunks /\ bp.total_chunks > 0]

mark_chunk_read(bp) ==
    IF bp.current_chunk < bp.total_chunks
    THEN [bp EXCEPT !.current_chunk = @ + 1,
                    !.reading_days = @ + 1,
                    !.completed = IF bp.current_chunk + 1 >= bp.total_chunks THEN TRUE ELSE @]
    ELSE bp

is_finished(bp) == bp.completed \/ bp.current_chunk >= bp.total_chunks

\* ----------------------------------------------------- services/progress.py
load_progress(d) ==
    IF d.exists THEN load_json(d) ELSE [exc |-> "none", doc |-> EmptyDoc]

get_book_progress(d, b) ==
    LET l == load_progress(d) IN
    IF l.exc # "none" THEN [exc |-> l.exc, bp |-> BookProgress0]
    ELSE IF ~l.doc.hasBooks THEN [exc |-> "KeyError", bp |-> BookProgress0]
    ELSE LET book_data == l.doc.books[b] IN
         [exc |-> "none",
          bp |-> [current_chunk |-> Get(book_data, "current_chunk", 0),
                  total_chunks |-> Get(book_data, "total_chunks", 0),
                  reading_days |-> Get(book_data, "reading_days", 0),
                  completed |-> Get(book_data, "completed", FALSE)]]

\* lines 43-49 and 68-74: load, then default "books" and the book's entry
LoadWithEntry(d, b) ==
    LET l == load_progress(d) IN
    IF l.exc # "none" THEN l
    ELSE LET books == IF l.doc.hasBooks THEN l.doc.books ELSE EmptyDoc.books IN
         [exc |-> "none",
          doc |-> [hasBooks |-> TRUE,
                   books |-> [books EXCEPT ![b] = IF @.present THEN @ ELSE EmptyEntry]]]

\* lines 51-53: a second read of the file, then the advance
Advanced(d, b, total_chunks) ==
    LET g == get_book_progress(d, b) IN
    IF g.exc # "none" THEN g
    ELSE [exc |-> "none",
          bp |-> mark_chunk_read([g.bp EXCEPT !.total_chunks = total_chunks])]

\* lines 56-61 without the reading_days line
WithRecordNoDays(doc, b, bp) ==
    [doc EXCEPT !.books[b] =
        [present |-> TRUE, keys |-> AllKeys \ {"reading_days"},
         current_chunk |-> bp.current_chunk, total_chunks |-> bp.total_chunks,
         reading_days |-> 0, completed |-> bp.completed]]

\* lines 56-61
WithRecord(doc, b, bp) ==
    [doc EXCEPT !.books[b] =
        [present |-> TRUE, keys |-> AllKeys, current_chunk |-> bp.current_chunk,
         total_chunks |-> bp.total_chunks, reading_days |-> bp.reading_days,
         completed |-> bp.completed]]

\* line 76 written as an assignment of the whole entry
WithTotalOnly(doc, b, total_chunks) ==
    [doc EXCEPT !.books[b] =
        [EmptyEntry EXCEPT !.keys = {"total_chunks"}, !.total_chunks = total_chunks]]

\* line 76
WithTotal(doc, b, total_chunks) ==
    [doc EXCEPT !.books[b].keys = @ \cup {"total_chunks"},
                !.books[b].total_chunks = total_chunks]

\* the whole call, run alone: [exc, bp (the value returned), disk (the file afterwards)]
update_book_progress(d, b, total_chunks) ==
    LET l == LoadWithEntry(d, b) IN
    IF l.exc # "none" THEN [exc |-> l.exc, bp |-> BookProgress0, disk |-> d]
    ELSE LET a == Advanced(d, b, total_chunks) IN
         IF a.exc # "none" THEN [exc |-> a.exc, bp |-> BookProgress0, disk |-> d]
         ELSE [exc |-> "none", bp |-> a.bp,
               disk |-> save_json(d, WithRecord(l.doc, b, a.bp))]

set_book_total_chunks(d, b, total_chunks) ==
    LET l == LoadWithEntry(d, b) IN
    IF l.exc # "none" THEN [exc |-> l.exc, bp |-> BookProgress0, disk |-> d]
    ELSE [exc |-> "none", bp |-> BookProgress0,
          disk |-> save_json(d, WithTotal(l.doc, b, total_chunks))]

\* lines 83-85 of get_reading_statistics
NoStats == [active_books |-> 0, completed_books |-> 0, total_reading_days |-> 0]

\* lines 87-92 with the completed test on the key's presence: an entry without the
\* "completed" key is counted in neither number
CountedSkipping(acc, book_data) ==
    IF "completed" \notin book_data.keys
    THEN [acc EXCEPT !.total_reading_days = @ + Get(book_data, "reading_days", 0)]
    ELSE IF book_data.completed
    THEN [acc EXCEPT !.completed_books = @ + 1,
                     !.total_reading_days = @ + Get(book_data, "reading_days", 0)]
    ELSE [acc EXCEPT !.active_books = @ + 1,
                     !.total_reading_days = @ + Get(book_data, "reading_days", 0)]

\* lines 88-92: one round of the loop over the entries
Counted(acc, book_data) ==
    IF Get(book_data, "completed", FALSE)
    THEN [acc EXCEPT !.completed_books = @ + 1,
                     !.total_reading_days = @ + Get(book_data, "reading_days", 0)]
    ELSE [acc EXCEPT !.active_books = @ + 1,
                     !.total_reading_days = @ + Get(book_data, "reading_days", 0)]

\* line 87: the loop over progress_data.get("books", {}).values(), bs the books left
RECURSIVE CountAll(_, _, _)
CountAll(acc, books, bs) ==
    IF bs = {} THEN acc
    ELSE LET b == CHOOSE x \in bs : TRUE IN
         CountAll(IF books[b].present THEN Counted(acc, books[b]) ELSE acc, books,
                  bs \ {b})

\* ProgressService.get_reading_statistics: [exc, stats]
get_reading_statistics(d) ==
    LET l == load_progress(d) IN
    IF l.exc # "none" THEN [exc |-> l.exc, stats |-> NoStats]
    ELSE [exc |-> "none", stats |-> CountAll(NoStats, l.doc.books, Books)]

\* BookProgress.progress_percentage, as the fraction num / den
progress_percentage(bp) ==
    IF bp.total_chunks = 0 THEN [num |-> 0, den |-> 1]
    ELSE [num |-> bp.current_chunk * 100, den |-> bp.total_chunks]

\* --------------------------------------------- one process, whole calls
NoCall ==
    [op |-> "none", book |-> "a.txt", n |-> 0, exc |-> "none", ret |-> BookProgress0,
     before |-> NoFile, stats |-> NoStats]

\* per book: k advance calls so far, the first with totalUnits n; adv: no setTotalUnits
\* was made on the book; same: adv, and every advance had totalUnits n
Hist0 == [k |-> 0, n |-> 0, adv |-> TRUE, same |-> TRUE]

NoOp == [name |-> "none", book |-> "a.txt", n |-> 0]

IdleProcs ==
    /\ pc = [p \in Procs |-> "off"]
    /\ op = [p \in Procs |-> NoOp]
    /\ pdata = [p \in Procs |-> NoBooksDoc]
    /\ bprog = [p \in Procs |-> BookProgress0]
    /\ start = NoFile

IdleChunker ==
    /\ text = <<>>
    /\ minutes = 0
    /\ wpm = 0
    /\ out = [state |-> "off", exc |-> "none", chunks |-> <<>>, raw |-> <<>>]

\* no chunk file, mail off, no command run yet
Reader0 ==
    [chunks |-> [exists |-> FALSE, n |-> 0], enable_email |-> FALSE, creds |-> FALSE,
     step |-> "idle", cmd |-> "none", presented |-> FALSE, index |-> 0,
     outcome |-> "none", before |-> NoFile, sends |-> 0, shown |-> <<>>, procs |-> 0]

IdleReader == reader = Reader0

IdleStore ==
    /\ last = NoCall
    /\ hist = [b \in Books |-> Hist0]
    /\ ncalls = 0

\* python -m src.main read <file> --send, line 176
Advance(b, n) ==
    /\ ncalls < MaxCalls
    /\ LET r == update_book_progress(disk, b, n) IN
       /\ disk' = r.disk
       /\ last' = [op |-> "advance", book |-> b, n |-> n, exc |-> r.exc, ret |-> r.bp,
                   before |-> disk, stats |-> NoStats]
    /\ hist' = [hist EXCEPT ![b] =
                   IF @.k = 0 THEN [@ EXCEPT !.k = 1, !.n = n]
                   ELSE [@ EXCEPT !.k = @ + 1, !.same = @ /\ n = hist[b].n]]
    /\ ncalls' = ncalls + 1
    /\ UNCHANGED <<procVars, chunkVars, reader, kept>>

\* python -m src.main process <file>, line 113
SetTotalUnits(b, n) ==
    /\ ncalls < MaxCalls
    /\ LET r == set_book_total_chunks(disk, b, n) IN
       /\ disk' = r.disk
       /\ last' = [op |-> "set", book |-> b, n |-> n, exc |-> r.exc, ret |-> r.bp,
                   before |-> disk, stats |-> NoStats]
    /\ hist' = [hist EXCEPT ![b].same = FALSE, ![b].adv = FALSE]
    /\ ncalls' = ncalls + 1
    /\ UNCHANGED <<procVars, chunkVars, reader, kept>>

\* main.py lines 143 and 221
GetProgress(b) ==
    /\ ncalls < MaxCalls
    /\ LET r == get_book_progress(disk, b) IN
       /\ last' = [op |-> "get", book |-> b, n |-> 0, exc |-> r.exc, ret |-> r.bp,
                   before |-> disk, stats |-> NoStats]
    /\ ncalls' = ncalls + 1
    /\ UNCHANGED <<disk, hist, procVars, chunkVars, reader, kept>>

\* python -m src.main status, line 202
Status ==
    /\ ncalls < MaxCalls
    /\ LET r == get_reading_statistics(disk) IN
       /\ last' = [op |-> "status", book |-> "a.txt", n |-> 0, exc |-> r.exc,
                   ret |-> BookProgress0, before |-> disk, stats |-> r.stats]
    /\ ncalls' = ncalls + 1
    /\ UNCHANGED <<disk, hist, procVars, chunkVars, reader, kept>>

Init ==
    /\ disk = NoFile
    /\ IdleStore
    /\ IdleProcs
    /\ IdleChunker
    /\ IdleReader
    /\ kept = NoFile

Next ==
    \/ \E b \in Books, n \in Totals : Advance(b, n)
    \/ \E b \in Books, n \in Totals : SetTotalUnits(b, n)
    \/ \E b \in Books : GetProgress(b)
    \/ Status

Spec == Init /\ [][Next]_vars

\* progress.json as a user or an earlier version may have left it: no file, {} or
\* {"books": {}}
InitFile ==
    /\ disk \in {NoFile, JsonFile(NoBooksDoc), JsonFile(EmptyDoc)}
    /\ IdleStore
    /\ IdleProcs
    /\ IdleChunker
    /\ IdleReader
    /\ kept = NoFile

NextFile ==
    \/ \E b \in Books, n \in Totals : Advance(b, n)
    \/ \E b \in Books, n \in Totals : SetTotalUnits(b, n)
    \/ \E b \in Books : GetProgress(b)

SpecFile == InitFile /\ [][NextFile]_vars

\* the record getProgress returns for book b from the store as it is
Stored(b) == get_book_progress(disk, b).bp
StoredIn(d, b) == get_book_progress(d, b).bp

Min(x, y) == IF x < y THEN x ELSE y

\* the "books" mapping a load of file d yields
BooksIn(d) == load_progress(d).doc.books

LastAdvance == last.op = "advance" /\ last.exc = "none"

\* ------------------------------------------------------------------ C3
\* C3 as stated: after an advance call, with any totalUnits argument, on a book that
\* only advance calls were made on, the stored currentUnit is not below the one before
\* the call and not above the stored totalUnits.
C3Original ==
    (LastAdvance /\ hist[last.book].adv) =>
        /\ Stored(last.book).current_chunk >= StoredIn(last.before, last.book).current_chunk
        /\ Stored(last.book).current_chunk <= Stored(last.book).total_chunks

\* C3, amended: after an advance call the stored currentUnit is not below the one before
\* the call, and it is not above the stored totalUnits whenever the call's totalUnits
\* argument is at least the currentUnit stored before the call.
C3Monotone ==
    LastAdvance =>
        /\ Stored(last.book).current_chunk >= StoredIn(last.before, last.book).current_chunk
        /\ (last.n >= StoredIn(last.before, last.book).current_chunk
               => Stored(last.book).current_chunk <= Stored(last.book).total_chunks)

\* an advance that moved the book, its totalUnits differing from the earlier calls'
C3Witness ==
    /\ LastAdvance
    /\ hist[last.book].k >= 2
    /\ hist[last.book].n # last.n
    /\ Stored(last.book).current_chunk = StoredIn(last.before, last.book).current_chunk + 1
    /\ Stored(last.book).current_chunk = Stored(last.book).total_chunks

\* ------------------------------------------------------------------ C4
\* C4 as stated: an advance call on a book whose completed flag is true (made true by
\* advance calls alone) leaves its currentUnit and its completed flag unchanged, whatever
\* the totalUnits argument.
C4Original ==
    (LastAdvance /\ hist[last.book].adv /\ StoredIn(last.before, last.book).completed) =>
        /\ Stored(last.book).current_chunk = StoredIn(last.before, last.book).current_chunk
        /\ Stored(last.book).completed = StoredIn(last.before, last.book).completed

\* C4, amended: an advance call on a book whose completed flag is true leaves the flag
\* true, and leaves currentUnit unchanged whenever the call's totalUnits argument does
\* not exceed the currentUnit stored before the call.
C4Terminal ==
    (LastAdvance /\ StoredIn(last.before, last.book).completed) =>
        /\ Stored(last.book).completed
        /\ (last.n <= StoredIn(last.before, last.book).current_chunk
               => Stored(last.book).current_chunk
                      = StoredIn(last.before, last.book).current_chunk)

\* an advance on a completed book with the totalUnits it was completed with
C4Witness ==
    /\ LastAdvance
    /\ StoredIn(last.before, last.book).completed
    /\ StoredIn(last.before, last.book).current_chunk = last.n
    /\ last.n > 0
    /\ Stored(last.book) = StoredIn(last.before, last.book)

\* ------------------------------------------------------------------ C5
\* C5: for every book whose stored totalUnits is positive, the completed flag is true
\* exactly when currentUnit >= totalUnits.
C5Claim ==
    \A b \in Books :
        Stored(b).total_chunks > 0
            => (Stored(b).completed <=> Stored(b).current_chunk >= Stored(b).total_chunks)

\* ------------------------------------------------------------------ C6
\* C6: after the k-th of k successive advance calls with the same totalUnits n > 0 on a
\* never-seen book, the record returned and the record stored are both
\* (currentUnit min(k, n), totalUnits n, readingDays min(k, n), completed k >= n).
C6Scenario ==
    (LastAdvance /\ hist[last.book].same /\ last.n > 0) =>
        LET k == hist[last.book].k
            n == last.n
            want == [current_chunk |-> Min(k, n), total_chunks |-> n,
                     reading_days |-> Min(k, n), completed |-> k >= n]
        IN /\ last.ret = want
           /\ Stored(last.book) = want

\* more calls than units: the call after the n-th, n >= 2
C6Witness ==
    /\ LastAdvance
    /\ hist[last.book].same
    /\ last.n >= 2
    /\ hist[last.book].k > last.n
    /\ last.ret.completed

\* ------------------------------------------------------------------ C7
\* C7: setTotalUnits(b, n) stores totalUnits n for b, leaves b's currentUnit, readingDays
\* and completed as getProgress returns them, and leaves every other book's entry as
\* it was.
C7Frame ==
    (last.op = "set" /\ last.exc = "none") =>
        /\ Stored(last.book) =
               [StoredIn(last.before, last.book) EXCEPT !.total_chunks = last.n]
        /\ \A o \in Books \ {last.book} : BooksIn(disk)[o] = BooksIn(last.before)[o]

\* a book with progress gets a different total while another book is tracked
C7Witness ==
    /\ last.op = "set"
    /\ StoredIn(last.before, last.book).current_chunk > 0
    /\ StoredIn(last.before, last.book).total_chunks # last.n
    /\ \E o \in Books \ {last.book} : BooksIn(disk)[o].present

\* ------------------------------------------------------------------ C9
\* C9: getProgress(b) raises nothing and returns the zero record when the file is
\* missing, the document has no "books" key or "books" has no entry for b; in every
\* case it leaves the store as it was, and a second call returns the same record.
C9Claim ==
    last.op = "get" =>
        /\ disk = last.before
        /\ ( \/ ~last.before.exists
             \/ ~last.before.doc.hasBooks
             \/ ~last.before.doc.books[last.book].present )
               => (last.exc = "none" /\ last.ret = BookProgress0)
        /\ get_book_progress(disk, last.book) = [exc |-> last.exc, bp |-> last.ret]

\* ------------------------------------- processes, one file access per step
Ops == [name : {"advance", "set"}, book : Books, n : Totals]

\* the call op run alone on file d
RunAlone(o, d) ==
    IF o.name = "advance" THEN update_book_progress(d, o.book, o.n)
    ELSE set_book_total_chunks(d, o.book, o.n)

\* the files that at most k calls, one after the other, leave
RECURSIVE Reach(_)
Reach(k) ==
    IF k = 0 THEN {NoFile}
    ELSE LET R == Reach(k - 1) IN R \cup {RunAlone(o, d).disk : o \in Ops, d \in R}

\* progress.py lines 43-49 (advance) and 68-76 (set): the load, and what follows it in memory
Load(p) ==
    /\ pc[p] = "load"
    /\ LET l == LoadWithEntry(disk, op[p].book) IN
       IF l.exc # "none"
       THEN /\ pc' = [pc EXCEPT ![p] = "raised"]
            /\ UNCHANGED pdata
       ELSE IF op[p].name = "advance"
       THEN /\ pc' = [pc EXCEPT ![p] = "read"]
            /\ pdata' = [pdata EXCEPT ![p] = l.doc]
       ELSE /\ pc' = [pc EXCEPT ![p] = "open"]
            /\ pdata' = [pdata EXCEPT ![p] = WithTotal(l.doc, op[p].book, op[p].n)]
    /\ UNCHANGED <<disk, op, bprog, start, last, hist, ncalls, chunkVars, reader, kept>>

\* progress.py lines 51-61: get_book_progress reads the file again
Read(p) ==
    /\ pc[p] = "read"
    /\ LET a == Advanced(disk, op[p].book, op[p].n) IN
       IF a.exc # "none"
       THEN /\ pc' = [pc EXCEPT ![p] = "raised"]
            /\ UNCHANGED <<pdata, bprog>>
       ELSE /\ pc' = [pc EXCEPT ![p] = "open"]
            /\ bprog' = [bprog EXCEPT ![p] = a.bp]
            /\ pdata' = [pdata EXCEPT ![p] = WithRecord(@, op[p].book, a.bp)]
    /\ UNCHANGED <<disk, op, start, last, hist, ncalls, chunkVars, reader, kept>>

\* utils.py line 72
Open(p) ==
    /\ pc[p] = "open"
    /\ disk' = open_w(disk)
    /\ pc' = [pc EXCEPT ![p] = "dump"]
    /\ UNCHANGED <<op, pdata, bprog, start, last, hist, ncalls, chunkVars, reader, kept>>

\* utils.py line 73 and the close of the file
Dump(p) ==
    /\ pc[p] = "dump"
    /\ disk' \in json_dump(disk, pdata[p])
    /\ kept' = IF disk'.text = "json" THEN disk' ELSE kept
    /\ pc' = [pc EXCEPT ![p] = "done"]
    /\ UNCHANGED <<op, pdata, bprog, start, last, hist, ncalls, chunkVars, reader>>

\* two invocations started together on a store that earlier calls left
InitConc ==
    /\ disk \in Reach(PreCalls)
    /\ start = disk
    /\ pc = [p \in Procs |-> "load"]
    /\ op \in [Procs -> Ops]
    /\ pdata = [p \in Procs |-> NoBooksDoc]
    /\ bprog = [p \in Procs |-> BookProgress0]
    /\ IdleStore
    /\ IdleChunker
    /\ IdleReader
    /\ kept = disk

NextConc ==
    \/ \E p \in Procs : Load(p)
    \/ \E p \in Procs : Read(p)
    \/ \E p \in Procs : Open(p)
    \/ \E p \in Procs : Dump(p)

SpecConc == InitConc /\ [][NextConc]_vars

AllDone == \A p \in Procs : pc[p] = "done"

\* ------------------------------------------------------------------ C1
\* C1: two advance calls for the same book with the same totalUnits, currentUnit + 2 <=
\* totalUnits beforehand, both finished: the stored currentUnit and readingDays are each
\* exactly 2 higher than before (whenever the file is a complete document at all).
C1Claim ==
    ( /\ AllDone
      /\ \A p \in Procs : op[p].name = "advance"
      /\ op[1].book = op[2].book
      /\ op[1].n = op[2].n
      /\ StoredIn(start, op[1].book).current_chunk + 2 <= op[1].n
      /\ disk.text = "json" )
    => /\ Stored(op[1].book).current_chunk = StoredIn(start, op[1].book).current_chunk + 2
       /\ Stored(op[1].book).reading_days = StoredIn(start, op[1].book).reading_days + 2

\* ------------------------------------------------------------------ C2
\* C2: two updates addressed to two different books, both finished: the store holds for
\* each of the two books the entry its update leaves when run alone (whenever the file is
\* a complete document at all).
C2Claim ==
    (AllDone /\ op[1].book # op[2].book /\ disk.text = "json")
    => \A p \in Procs :
           BooksIn(disk)[op[p].book] = BooksIn(RunAlone(op[p], start).disk)[op[p].book]

\* ------------------------------------------ one process that may stop mid-call
\* the next invocation: one call, on the store as the last one left it
Begin(p, o) ==
    /\ pc[p] \in {"idle", "done", "raised", "crashed"}
    /\ ncalls < MaxCalls
    /\ ncalls' = ncalls + 1
    /\ op' = [op EXCEPT ![p] = o]
    /\ pc' = [pc EXCEPT ![p] = "load"]
    /\ pdata' = [pdata EXCEPT ![p] = NoBooksDoc]
    /\ bprog' = [bprog EXCEPT ![p] = BookProgress0]
    /\ start' = disk
    /\ UNCHANGED <<disk, last, hist, chunkVars, reader, kept>>

\* the process is killed, or json.dump fails (disk full, an I/O error), before the call is
\* over. With the file open for writing, what was flushed so far stays: nothing (the
\* dump still in the buffer) or a part of the dump.
Crash(p) ==
    /\ pc[p] \in {"load", "read", "open", "dump"}
    /\ IF pc[p] = "dump" THEN disk' \in {disk, CorruptFile} ELSE disk' = disk
    /\ pc' = [pc EXCEPT ![p] = "crashed"]
    /\ UNCHANGED <<op, pdata, bprog, start, last, hist, ncalls, chunkVars, reader, kept>>

InitCrash ==
    /\ disk = NoFile
    /\ start = NoFile
    /\ pc = [p \in Procs |-> IF p = 1 THEN "idle" ELSE "off"]
    /\ op = [p \in Procs |-> NoOp]
    /\ pdata = [p \in Procs |-> NoBooksDoc]
    /\ bprog = [p \in Procs |-> BookProgress0]
    /\ IdleStore
    /\ IdleChunker
    /\ IdleReader
    /\ kept = NoFile

NextCrash ==
    \/ \E o \in Ops : Begin(1, o)
    \/ Load(1)
    \/ Read(1)
    \/ Open(1)
    \/ Dump(1)
    \/ Crash(1)

SpecCrash == InitCrash /\ [][NextCrash]_vars

\* ------------------------------------------------------------------ C8
\* C8: when a call stops before its write is finished, the progress file, if it held a
\* complete document before the call, still holds that document.
C8Claim ==
    (pc[1] = "crashed" /\ start.text = "json") => disk = start

\* ------------------------------------------------------- processors/chunker.py
\* the characters of a text: two letters, the space and the newline
Chars == {"a", "b", " ", "\n"}

IsSpace(c) == c \in {" ", "\t", "\n"}

\* what a text is put together from: a character, or a paragraph separator
Pieces == {<<c>> : c \in Chars} \cup {<<"\n", "\n">>}

\* the texts of k pieces: every text of k characters, and longer ones with separators
RECURSIVE TextsOfLen(_)
TextsOfLen(k) ==
    IF k = 0 THEN {<<>>} ELSE {t \o q : t \in TextsOfLen(k - 1), q \in Pieces}

Texts == UNION {TextsOfLen(k) : k \in 0..MaxLen}

\* str.lstrip, str.rstrip, str.strip
RECURSIVE lstrip(_)
lstrip(s) == IF s # <<>> /\ IsSpace(Head(s)) THEN lstrip(Tail(s)) ELSE s

RECURSIVE rstrip(_)
rstrip(s) ==
    IF s # <<>> /\ IsSpace(s[Len(s)]) THEN rstrip(SubSeq(s, 1, Len(s) - 1)) ELSE s

strip(s) == rstrip(lstrip(s))

\* str.split('\n\n'): the pieces between the occurrences of the separator, found left
\* to right; piece is the piece being read
RECURSIVE SplitFrom(_, _)
SplitFrom(s, piece) ==
    IF s = <<>> THEN <<piece>>
    ELSE IF Len(s) >= 2 /\ s[1] = "\n" /\ s[2] = "\n"
    THEN <<piece>> \o SplitFrom(SubSeq(s, 3, Len(s)), <<>>)
    ELSE SplitFrom(Tail(s), Append(piece, Head(s)))

split_paragraphs(s) == SplitFrom(s, <<>>)

\* '\n\n'.join(paragraphs)
RECURSIVE join_paragraphs(_)
join_paragraphs(ps) ==
    IF ps = <<>> THEN <<>>
    ELSE IF Len(ps) = 1 THEN ps[1]
    ELSE ps[1] \o <<"\n", "\n">> \o join_paragraphs(Tail(ps))

\* len(text.split()): the maximal runs of non-space characters
RECURSIVE WordsFrom(_, _)
WordsFrom(s, inWord) ==
    IF s = <<>> THEN 0
    ELSE IF IsSpace(Head(s)) THEN WordsFrom(Tail(s), FALSE)
    ELSE (IF inWord THEN 0 ELSE 1) + WordsFrom(Tail(s), TRUE)

\* utils.count_words
count_words(s) == IF strip(s) = <<>> THEN 0 ELSE WordsFrom(s, FALSE)

\* int(self.target_reading_time * self.words_per_minute), the time in half minutes
target_words(halves, words_per_minute) == (halves * words_per_minute) \div 2

\* TextChunker._create_chunk; the reading time is the quotient word_count / words_per_minute
create_chunk(index, content, words_per_minute) ==
    IF words_per_minute = 0
    THEN [exc |-> "ZeroDivisionError",
          chunk |-> [index |-> index, content |-> content, word_count |-> 0,
                     estimated_reading_time |-> [num |-> 0, den |-> 1]]]
    ELSE [exc |-> "none",
          chunk |-> [index |-> index, content |-> content,
                     word_count |-> count_words(content),
                     estimated_reading_time |->
                         [num |-> count_words(content), den |-> words_per_minute]]]

\* the loop's variables before the first piece
Loop0 == [exc |-> "none", chunks |-> <<>>, current |-> <<>>, count |-> 0]

\* a new chunk started empty: the paragraph that closed the last one is dropped
NewChunkEmpty(paragraph) == <<>>

\* chunker.py lines 44-45: the new chunk starts with the paragraph that would overflow
NewChunk(paragraph) == <<paragraph>>

\* the loop with the overflow test on the paragraph alone: the words already in the
\* chunk are not counted
LoopBodyNoCount(st, piece, tw, words_per_minute) ==
    LET paragraph == strip(piece)
        paragraph_words == count_words(paragraph)
    IN
    IF st.exc # "none" \/ paragraph = <<>> THEN st
    ELSE IF paragraph_words > tw /\ st.current # <<>>
    THEN LET c == create_chunk(Len(st.chunks), join_paragraphs(st.current),
                               words_per_minute)
         IN IF c.exc # "none" THEN [st EXCEPT !.exc = c.exc]
            ELSE [exc |-> "none", chunks |-> Append(st.chunks, c.chunk),
                  current |-> NewChunk(paragraph), count |-> paragraph_words]
    ELSE [st EXCEPT !.current = Append(@, paragraph), !.count = @ + paragraph_words]

\* the loop with >= for >: a chunk is closed when the paragraph would fill the budget
\* exactly
LoopBodyGe(st, piece, tw, words_per_minute) ==
    LET paragraph == strip(piece)
        paragraph_words == count_words(paragraph)
    IN
    IF st.exc # "none" \/ paragraph = <<>> THEN st
    ELSE IF st.count + paragraph_words >= tw /\ st.current # <<>>
    THEN LET c == create_chunk(Len(st.chunks), join_paragraphs(st.current),
                               words_per_minute)
         IN IF c.exc # "none" THEN [st EXCEPT !.exc = c.exc]
            ELSE [exc |-> "none", chunks |-> Append(st.chunks, c.chunk),
                  current |-> NewChunk(paragraph), count |-> paragraph_words]
    ELSE [st EXCEPT !.current = Append(@, paragraph), !.count = @ + paragraph_words]

\* chunker.py lines 31-50: one round of the loop
LoopBody(st, piece, tw, words_per_minute) ==
    LET paragraph == strip(piece)
        paragraph_words == count_words(paragraph)
    IN
    IF st.exc # "none" \/ paragraph = <<>> THEN st
    ELSE IF st.count + paragraph_words > tw /\ st.current # <<>>
    THEN LET c == create_chunk(Len(st.chunks), join_paragraphs(st.current),
                               words_per_minute)
         IN IF c.exc # "none" THEN [st EXCEPT !.exc = c.exc]
            ELSE [exc |-> "none", chunks |-> Append(st.chunks, c.chunk),
                  current |-> NewChunk(paragraph), count |-> paragraph_words]
    ELSE [st EXCEPT !.current = Append(@, paragraph), !.count = @ + paragraph_words]

RECURSIVE Loop(_, _, _, _)
Loop(st, pieces, tw, words_per_minute) ==
    IF pieces = <<>> THEN st
    ELSE Loop(LoopBody(st, Head(pieces), tw, words_per_minute), Tail(pieces), tw,
              words_per_minute)

\* TextChunker.chunk_text: [exc, chunks]
chunk_text(t, halves, words_per_minute) ==
    IF strip(t) = <<>> THEN [exc |-> "none", chunks |-> <<>>]
    ELSE LET st == Loop(Loop0, split_paragraphs(t), target_words(halves, words_per_minute),
                        words_per_minute)
         IN IF st.exc # "none" THEN [exc |-> st.exc, chunks |-> <<>>]
            ELSE IF st.current # <<>>
            THEN LET c == create_chunk(Len(st.chunks), join_paragraphs(st.current),
                                       words_per_minute)
                 IN IF c.exc # "none" THEN [exc |-> c.exc, chunks |-> <<>>]
                    ELSE [exc |-> "none", chunks |-> Append(st.chunks, c.chunk)]
            ELSE [exc |-> "none", chunks |-> st.chunks]

\* main.py lines 82-87
Chunk ==
    /\ out.state = "ready"
    /\ LET r == chunk_text(text, minutes, wpm) IN
       out' = [state |-> "done", exc |-> r.exc, chunks |-> r.chunks, raw |-> out.raw]
    /\ UNCHANGED <<text, minutes, wpm, storeVars, procVars, reader, kept>>

InitChunk ==
    /\ text \in Texts
    /\ minutes \in 0..MaxHalfMinutes
    /\ wpm \in 0..MaxWpm
    /\ out = [state |-> "ready", exc |-> "none", chunks |-> <<>>, raw |-> <<>>]
    /\ disk = NoFile
    /\ IdleStore
    /\ IdleProcs
    /\ IdleReader
    /\ kept = NoFile

NextChunk == Chunk

SpecChunk == InitChunk /\ [][NextChunk]_vars

\* the trimmed non-empty paragraphs of a text, in order
RECURSIVE TrimmedNonEmpty(_)
TrimmedNonEmpty(pieces) ==
    IF pieces = <<>> THEN <<>>
    ELSE (IF strip(Head(pieces)) = <<>> THEN <<>> ELSE <<strip(Head(pieces))>>)
             \o TrimmedNonEmpty(Tail(pieces))

\* the paragraphs of the units' contents, unit after unit
RECURSIVE UnitParagraphs(_)
UnitParagraphs(chunks) ==
    IF chunks = <<>> THEN <<>>
    ELSE split_paragraphs(Head(chunks).content) \o UnitParagraphs(Tail(chunks))

Returned == out.state = "done" /\ out.exc = "none"

\* ------------------------------------------------------------------ C10
\* C10: the paragraphs of the returned units' contents, split on the paragraph
\* separator and taken in unit order, are exactly the trimmed non-empty paragraphs of
\* the input text, in their order.
C10Coverage ==
    Returned => UnitParagraphs(out.chunks) = TrimmedNonEmpty(split_paragraphs(text))

\* two units, one of them holding two paragraphs, from a text of different paragraphs
C10Witness ==
    /\ Returned
    /\ Len(out.chunks) = 2
    /\ Len(TrimmedNonEmpty(split_paragraphs(text))) = 3
    /\ \E i, j \in 1..3 :
           TrimmedNonEmpty(split_paragraphs(text))[i]
               # TrimmedNonEmpty(split_paragraphs(text))[j]

\* the budget of the run
tw == target_words(minutes, wpm)

\* ------------------------------------------------------------------ C11
\* C11: every returned unit of two or more paragraphs has wordCount <= targetWords; a
\* unit whose wordCount exceeds targetWords is one paragraph; a paragraph whose own
\* word count exceeds targetWords is the only paragraph of its unit.
C11Budget ==
    Returned =>
        \A i \in 1..Len(out.chunks) :
            LET ps == split_paragraphs(out.chunks[i].content) IN
            /\ Len(ps) >= 2 => out.chunks[i].word_count <= tw
            /\ out.chunks[i].word_count > tw => Len(ps) = 1
            /\ \A j \in 1..Len(ps) : count_words(ps[j]) > tw => Len(ps) = 1

\* a unit of two paragraphs that fills the budget exactly, and a unit after it
C11Witness ==
    /\ Returned
    /\ Len(out.chunks) >= 2
    /\ Len(split_paragraphs(out.chunks[1].content)) = 2
    /\ out.chunks[1].word_count = tw

\* ------------------------------------------------------------------ C12
\* C12: chunk_text returns a chunk sequence and raises nothing, for every text and every
\* non-negative targetMinutes and wordsPerMinute.
C12Claim == out.state = "done" => out.exc = "none"

\* ------------------------------------------------------------------ C19
\* C19: for every two consecutive returned units, the word count of the first plus the
\* word count of the first paragraph of the second is greater than targetWords.
C19Greedy ==
    Returned =>
        \A i \in 1..(Len(out.chunks) - 1) :
            out.chunks[i].word_count
                + count_words(split_paragraphs(out.chunks[i + 1].content)[1]) > tw

\* a unit within the budget closed by a paragraph that would have overflowed it
C19Witness ==
    /\ Returned
    /\ Len(out.chunks) = 2
    /\ tw >= 2
    /\ out.chunks[1].word_count <= tw
    /\ Len(split_paragraphs(out.chunks[1].content)) = 2

\* ------------------------------------------------------------------ C14
\* C14: the progress percentage of every tracked book's record lies in [0, 100].
C14Claim ==
    \A b \in Books :
        LET pct == progress_percentage(Stored(b)) IN
        pct.num >= 0 /\ pct.num <= 100 * pct.den

\* ------------------------------------------------------------------ C16
\* the entries of the stored mapping
Entries == {b \in Books : BooksIn(disk)[b].present}

RECURSIVE SumDays(_)
SumDays(bs) ==
    IF bs = {} THEN 0
    ELSE LET b == CHOOSE x \in bs : TRUE IN Stored(b).reading_days + SumDays(bs \ {b})

\* C16: get_reading_statistics returns activeBooks + completedBooks equal to the number
\* of entries of the mapping, completedBooks the number of entries whose completed flag
\* is true, and totalReadingDays the sum of readingDays over the entries.
C16Stats ==
    (last.op = "status" /\ last.exc = "none") =>
        /\ last.stats.active_books + last.stats.completed_books = Cardinality(Entries)
        /\ last.stats.completed_books = Cardinality({b \in Entries : Stored(b).completed})
        /\ last.stats.total_reading_days = SumDays(Entries)

\* two entries: one with only totalUnits set, one completed with reading days
C16Witness ==
    /\ last.op = "status"
    /\ Cardinality(Entries) = 2
    /\ \E b \in Entries : BooksIn(disk)[b].keys = {"total_chunks"}
    /\ \E b \in Entries : Stored(b).completed /\ Stored(b).reading_days >= 2
    /\ last.stats.active_books = 1

\* ------------------------------------------------- main.py: process and read
\* the book the commands are given
ReadBook == "a.txt"

\* the chunk presented, taken from the progress after the advance
ChunkShownNext(progress) == progress.current_chunk + 1

\* main.py line 149: chunk = chunk_data['chunks'][progress.current_chunk]
ChunkShown(progress) == progress.current_chunk

\* process_book_command with a text of n chunks: the chunk file is written (line 108),
\* then the total is stored (line 113)
ProcessBook(n) ==
    /\ reader.step = "idle"
    /\ ncalls < MaxCalls
    /\ ncalls' = ncalls + 1
    /\ disk' = set_book_total_chunks(disk, ReadBook, n).disk
    /\ reader' = [reader EXCEPT !.chunks = [exists |-> TRUE, n |-> n],
                                !.cmd = "process", !.presented = FALSE, !.index = 0,
                                !.outcome = "none", !.before = disk, !.procs = @ + 1]
    /\ UNCHANGED <<last, hist, procVars, chunkVars, kept>>

\* read_daily_command up to line 177: the chunk file, the progress, the chunk presented
\* and, with --send, the advance
ReadCmd(send) ==
    /\ reader.step = "idle"
    /\ ncalls < MaxCalls
    /\ ncalls' = ncalls + 1
    /\ LET g == get_book_progress(disk, ReadBook)
           n == reader.chunks.n
           name == IF send THEN "send" ELSE "preview"
           quiet == [reader EXCEPT !.cmd = name, !.presented = FALSE, !.index = 0,
                                   !.outcome = "none", !.before = disk]
       IN
       IF ~reader.chunks.exists
       THEN /\ reader' = quiet
            /\ disk' = disk
       ELSE IF g.exc # "none" \/ g.bp.current_chunk >= n
       THEN /\ reader' = [quiet EXCEPT !.sends = IF send THEN @ + 1 ELSE @]
            /\ disk' = disk
       ELSE IF ~send
       THEN /\ reader' = [quiet EXCEPT !.presented = TRUE, !.index = ChunkShown(g.bp)]
            /\ disk' = disk
       ELSE /\ disk' = update_book_progress(disk, ReadBook, n).disk
            /\ reader' = [quiet EXCEPT !.presented = TRUE, !.index = ChunkShown(g.bp),
                                       !.sends = @ + 1,
                                       !.shown = Append(@, ChunkShown(g.bp)),
                                       !.step = IF reader.enable_email THEN "deliver"
                                                ELSE "idle",
                                       !.outcome = IF reader.enable_email THEN "pending"
                                                   ELSE "disabled"]
    /\ UNCHANGED <<last, hist, procVars, chunkVars, kept>>

\* delivery whose failure undoes the advance
DeliverRollback ==
    /\ reader.step = "deliver"
    /\ \E o \in (IF reader.creds THEN {"sent", "failed"} ELSE {"nocreds"}) :
           /\ reader' = [reader EXCEPT !.step = "idle", !.outcome = o]
           /\ disk' = IF o = "sent" THEN disk ELSE reader.before
    /\ UNCHANGED <<last, hist, ncalls, procVars, chunkVars, kept>>

\* main.py lines 180-187 and EmailService.send_daily_chunk: without credentials False is
\* returned, otherwise the mail is sent or the failure is caught and False returned; the
\* value is dropped
Deliver ==
    /\ reader.step = "deliver"
    /\ \E o \in (IF reader.creds THEN {"sent", "failed"} ELSE {"nocreds"}) :
           reader' = [reader EXCEPT !.step = "idle", !.outcome = o]
    /\ UNCHANGED <<disk, last, hist, ncalls, procVars, chunkVars, kept>>

\* settings.json: enable_email, and whether sender_email and sender_password are set
InitRead ==
    /\ disk = NoFile
    /\ reader \in {[Reader0 EXCEPT !.enable_email = e, !.creds = c] :
                       e \in BOOLEAN, c \in BOOLEAN}
    /\ IdleStore
    /\ IdleProcs
    /\ IdleChunker
    /\ kept = NoFile

NextRead ==
    \/ \E n \in Totals : ProcessBook(n)
    \/ \E send \in BOOLEAN : ReadCmd(send)
    \/ Deliver

SpecRead == InitRead /\ [][NextRead]_vars

\* the last command was a read --send that presented a chunk
SentChunk == reader.cmd = "send" /\ reader.presented

\* ------------------------------------------------------------------ C13
\* C13: in read --send, once a chunk is presented the advanced record is stored, both
\* while delivery is still to be attempted and after the command, whatever the delivery
\* outcome (disabled, no credentials, sent, failed).
C13NoFeedback ==
    SentChunk =>
        Stored(ReadBook) =
            mark_chunk_read([StoredIn(reader.before, ReadBook)
                                 EXCEPT !.total_chunks = reader.chunks.n])

\* the command is over, delivery failed, and the advance is stored
C13Witness ==
    /\ SentChunk
    /\ reader.step = "idle"
    /\ reader.outcome = "failed"
    /\ Stored(ReadBook).current_chunk
           = StoredIn(reader.before, ReadBook).current_chunk + 1

\* ------------------------------------------------------------------ C17
\* C17: the chunk file written once, with n >= 1 chunks: the read --send invocations
\* present the chunks 0, 1, ... in order, one each, the k-th leaving currentUnit k, up to
\* n; every read after the n-th read --send presents no chunk and leaves the store
\* unchanged.
C17InOrder ==
    (reader.procs = 1 /\ reader.chunks.n >= 1) =>
        LET n == reader.chunks.n IN
        /\ Len(reader.shown) = Min(reader.sends, n)
        /\ \A i \in 1..Len(reader.shown) : reader.shown[i] = i - 1
        /\ Stored(ReadBook).current_chunk = Min(reader.sends, n)
        /\ ( \/ (reader.cmd = "send" /\ reader.sends > n)
             \/ (reader.cmd = "preview" /\ reader.sends >= n) )
               => (~reader.presented /\ disk = reader.before)

\* two chunks, three read --send: both presented in order, the third reports completion
C17Witness ==
    /\ reader.procs = 1
    /\ reader.chunks.n = 2
    /\ reader.sends = 3
    /\ reader.shown = <<0, 1>>
    /\ reader.cmd = "send"
    /\ ~reader.presented

\* ------------------------------------------------------------------ C18
\* a setTotalUnits and an advance on the same book
SetAndAdvance ==
    /\ op[1].book = op[2].book
    /\ {op[1].name, op[2].name} = {"set", "advance"}

\* C18: with a setTotalUnits and an advance running together on one book, every complete
\* document written holds for the book a currentUnit and a readingDays not below those of
\* the complete document before it, and a completed flag that is true if it was true.
C18Claim ==
    [][ (SetAndAdvance /\ kept' # kept) =>
            /\ StoredIn(kept', op[1].book).current_chunk
                   >= StoredIn(kept, op[1].book).current_chunk
            /\ StoredIn(kept', op[1].book).reading_days
                   >= StoredIn(kept, op[1].book).reading_days
            /\ (StoredIn(kept, op[1].book).completed
                   => StoredIn(kept', op[1].book).completed) ]_vars

\* ------------------------------------------------------------------ utils.clean_text
\* the characters of a raw text: a letter, the space, the tab, the newline, a double quote
CleanChars == {"a", " ", "\t", "\n", "\""}

\* what a raw text is put together from: a character, or a blank line
CleanPieces == {<<c>> : c \in CleanChars} \cup {<<"\n", "\n">>}

RECURSIVE CleanTextsOfLen(_)
CleanTextsOfLen(k) ==
    IF k = 0 THEN {<<>>} ELSE {t \o q : t \in CleanTextsOfLen(k - 1), q \in CleanPieces}

CleanTexts == UNION {CleanTextsOfLen(k) : k \in 0..MaxLen}

\* str.split('\n'): the lines between the newlines; line is the line being read
RECURSIVE SplitLinesFrom(_, _)
SplitLinesFrom(s, line) ==
    IF s = <<>> THEN <<line>>
    ELSE IF Head(s) = "\n" THEN <<line>> \o SplitLinesFrom(Tail(s), <<>>)
    ELSE SplitLinesFrom(Tail(s), Append(line, Head(s)))

split_lines(s) == SplitLinesFrom(s, <<>>)

\* '\n'.join(cleaned_lines)
RECURSIVE join_lines(_)
join_lines(lines) ==
    IF lines = <<>> THEN <<>>
    ELSE IF Len(lines) = 1 THEN lines[1]
    ELSE lines[1] \o <<"\n">> \o join_lines(Tail(lines))

\* the text after the leading characters of set cs
RECURSIVE SkipRun(_, _)
SkipRun(s, cs) == IF s # <<>> /\ Head(s) \in cs THEN SkipRun(Tail(s), cs) ELSE s

\* re.sub(r'[ \t]+', ' ', line): every run of spaces and tabs becomes one space
RECURSIVE collapse_blanks(_)
collapse_blanks(s) ==
    IF s = <<>> THEN <<>>
    ELSE IF Head(s) \in {" ", "\t"}
    THEN <<" ">> \o collapse_blanks(SkipRun(s, {" ", "\t"}))
    ELSE <<Head(s)>> \o collapse_blanks(Tail(s))

\* the body of the loop over the lines: strip, then collapse the blanks
clean_line(line) == collapse_blanks(strip(line))

clean_lines(lines) == [i \in 1..Len(lines) |-> clean_line(lines[i])]

\* the two quote substitutions: each character of the class is replaced by the straight
\* quote; the classes of the source hold the straight quote only
normalize_quotes(s) ==
    [i \in 1..Len(s) |->
        IF s[i] \in {"\""} THEN "\""
        ELSE IF s[i] \in {"'"} THEN "'"
        ELSE s[i]]

\* a pattern \n{3} in place of \n{3,}: each three newlines become two, left to right
RECURSIVE collapse_newlines_triples(_)
collapse_newlines_triples(s) ==
    IF s = <<>> THEN <<>>
    ELSE IF Len(s) >= 3 /\ s[1] = "\n" /\ s[2] = "\n" /\ s[3] = "\n"
    THEN <<"\n", "\n">> \o collapse_newlines_triples(SubSeq(s, 4, Len(s)))
    ELSE <<Head(s)>> \o collapse_newlines_triples(Tail(s))

\* re.sub(r'\n{3,}', '\n\n', text): every run of three or more newlines becomes two
RECURSIVE collapse_newlines(_)
collapse_newlines(s) ==
    IF s = <<>> THEN <<>>
    ELSE IF Head(s) = "\n"
    THEN LET rest == SkipRun(s, {"\n"})
             n == Len(s) - Len(rest)
         IN (IF n >= 3 THEN <<"\n", "\n">> ELSE SubSeq(s, 1, n)) \o collapse_newlines(rest)
    ELSE <<Head(s)>> \o collapse_newlines(Tail(s))

clean_text(s) ==
    IF s = <<>> THEN <<>>
    ELSE strip(collapse_newlines(normalize_quotes(join_lines(clean_lines(split_lines(s))))))

\* main.py line 71: the content read from the book is cleaned
Clean ==
    /\ out.state = "raw"
    /\ text' = clean_text(text)
    /\ out' = [out EXCEPT !.state = "cleaned", !.raw = text]
    /\ UNCHANGED <<minutes, wpm, storeVars, procVars, reader, kept>>

InitClean ==
    /\ text \in CleanTexts
    /\ minutes = 0
    /\ wpm = 0
    /\ out = [state |-> "raw", exc |-> "none", chunks |-> <<>>, raw |-> <<>>]
    /\ disk = NoFile
    /\ IdleStore
    /\ IdleProcs
    /\ IdleReader
    /\ kept = NoFile

NextClean == Clean

SpecClean == InitClean /\ [][NextClean]_vars

\* ------------------------------------------------------------------ C15
\* C15: cleaning a cleaned text returns it unchanged: for the result y = clean_text(x) of
\* cleaning any text x, clean_text(y) = y.
C15Idempotent == out.state = "cleaned" => clean_text(text) = text

\* a text with a tab and a run of three newlines between its words has been cleaned, and
\* the result differs from it and still has two lines
C15Witness ==
    /\ out.state = "cleaned"
    /\ \E i \in 1..Len(out.raw) : out.raw[i] = "\t"
    /\ \E i \in 1..(Len(out.raw) - 2) :
           out.raw[i] = "\n" /\ out.raw[i + 1] = "\n" /\ out.raw[i + 2] = "\n"
    /\ text # out.raw
    /\ \E i \in 1..Len(text) : text[i] = "\n"

====
